---------------------------- MODULE Spec2Model ----------------------------
(***************************************************************************)
(* Model of the HealthcareDashboard React component (src/unnamed/part_000). *)
(*                                                                         *)
(* State: the five useState cells the claims read (formData, errors,       *)
(* isSubmitting, submitMessage, messageType), the axios request in flight, *)
(* and the pending setTimeout callbacks.  Every event handler runs to      *)
(* completion against the latest render; the part of handleSubmit after    *)
(* `await` runs later and reads the values its closure captured when the   *)
(* submit event was handled.                                               *)
(*                                                                         *)
(* Strings the code inspects character by character (name, age) are        *)
(* sequences of one-character tokens; messages are plain strings.          *)
(***************************************************************************)
EXTENDS Integers, Sequences, FiniteSets, TLC

VARIABLES formData, errors, isSubmitting, submitMessage, messageType,
          requests, timers, submitSeq, msgOwner, last

vars == <<formData, errors, isSubmitting, submitMessage, messageType,
          requests, timers, submitSeq, msgOwner, last>>

---------------------------------------------------------------------------
(* Bounds of the model *)

\* longest name typed into the name input
MaxNameLen == 2
\* most digits typed into the age input
MaxAgeDigits == 3
\* candidate file sizes lie within this distance of maxSize
SizeSlack == 1
\* submit events per session
MaxSubmits == 3

---------------------------------------------------------------------------
(* JavaScript values *)

\* a missing object key / an absent property
Undefined == "<undefined>"

\* JS truthiness of a value that is a string or undefined
Truthy(s) == s # Undefined /\ s # ""

\* a || b || c on strings-or-undefined
Or3(a, b, c) == IF Truthy(a) THEN a ELSE IF Truthy(b) THEN b ELSE c

---------------------------------------------------------------------------
(* Characters and strings of the name and age inputs *)

\* characters matched by [a-zA-Z]
LetterChars == {"a", "Z"}
\* characters matched by \s (and stripped by trim)
SpaceChars == {" "}
\* characters matched by neither: a digit and a non-ASCII letter
OtherChars == {"1", "eacute"}
NameChars == LetterChars \cup SpaceChars \cup OtherChars

SeqsUpTo(S, n) == UNION {[1..k -> S] : k \in 0..n}

\* values the name input can hold
NameInputs == SeqsUpTo(NameChars, MaxNameLen)

DigitChars == {"0", "1", "5"}
DigitSeqs == SeqsUpTo(DigitChars, MaxAgeDigits) \ {<<>>}

\* values an <input type="number"> can hold: "" or a number string
AgeInputs == {<<>>} \cup DigitSeqs
               \cup {<<"-">> \o d : d \in SeqsUpTo(DigitChars, MaxAgeDigits - 1) \ {<<>>}}

RECURSIVE trimStart(_)
trimStart(s) ==
    IF s = <<>> THEN s
    ELSE IF Head(s) \in SpaceChars THEN trimStart(Tail(s)) ELSE s

RECURSIVE trimEnd(_)
trimEnd(s) ==
    IF s = <<>> THEN s
    ELSE IF s[Len(s)] \in SpaceChars THEN trimEnd(SubSeq(s, 1, Len(s) - 1)) ELSE s

\* String.prototype.trim
trim(s) == trimEnd(trimStart(s))

\* /^[a-zA-Z\s]*$/.test(s)
LettersAndSpacesOnly(s) ==
    \A i \in 1..Len(s) : s[i] \in LetterChars \cup SpaceChars

DigitVal(c) == CASE c = "0" -> 0 [] c = "1" -> 1 [] c = "5" -> 5

RECURSIVE DigitsValue(_)
DigitsValue(s) ==
    IF s = <<>> THEN 0
    ELSE DigitsValue(SubSeq(s, 1, Len(s) - 1)) * 10 + DigitVal(s[Len(s)])

\* the number a relational operator converts a numeric string to
ToNumber(s) ==
    IF Head(s) = "-" THEN 0 - DigitsValue(Tail(s)) ELSE DigitsValue(s)

---------------------------------------------------------------------------
(* Messages *)

NameRequired == "Name is required"
NameTooShort == "Name must be at least 2 characters"
NameLettersOnly == "Name should only contain letters"
AgeRequired == "Age is required"
AgeOutOfRange == "Age must be between 0 and 150"
FileTypeError == "Only PDF, JPEG, and PNG files are allowed"
FileSizeError == "File size should be less than 5MB"
FixErrors == "Please fix the errors before submitting."
TimedOut == "Request timed out. Please try again."
TooLarge == "File is too large. Maximum size is 5MB."
NetworkError == "Network error. Please check your connection."
SubmissionError == "Submission error"

---------------------------------------------------------------------------
(* Files *)

allowedTypes == {"application/pdf", "image/jpeg", "image/png"}
maxSize == 5 * 1024 * 1024

\* formData.file === null
NullFile == [present |-> FALSE, type |-> "", size |-> 0]

File(t, n) == [present |-> TRUE, type |-> t, size |-> n]

\* MIME types of candidate files; "" is what a browser reports for an unknown type
FileTypes == allowedTypes \cup {"text/plain", "image/gif", ""}
FileSizes == (maxSize - SizeSlack)..(maxSize + SizeSlack)

\* files a drop or a file chooser can hand to handleFileSelection
Candidates == {File(t, n) : t \in FileTypes, n \in FileSizes}


---------------------------------------------------------------------------
(* Form state *)

\* useState({ name: "", age: "", file: null })
EmptyForm == [name |-> <<>>, age |-> <<>>, file |-> NullFile]

\* the errors object; a key that is not set reads as undefined
EmptyErrors == [name |-> Undefined, age |-> Undefined, file |-> Undefined]

\* variant: the length test written with <= instead of <
nameErrorAtMostTwo(name) ==
    IF trim(name) = <<>> THEN NameRequired
    ELSE IF Len(name) <= 2 THEN NameTooShort
    ELSE IF ~LettersAndSpacesOnly(name) THEN NameLettersOnly
    ELSE Undefined

\* the name rule of validateForm: newErrors.name, undefined when no branch fires
nameError(name) ==
    IF trim(name) = <<>> THEN NameRequired
    ELSE IF Len(name) < 2 THEN NameTooShort
    ELSE IF ~LettersAndSpacesOnly(name) THEN NameLettersOnly
    ELSE Undefined

\* the age rule of validateForm: newErrors.age, undefined when no branch fires
ageError(age) ==
    IF age = <<>> THEN AgeRequired
    ELSE IF ToNumber(age) < 0 \/ ToNumber(age) > 150 THEN AgeOutOfRange
    ELSE Undefined

\* the object validateForm builds and passes to setErrors: it has no file key
newErrors(fd) ==
    [name |-> nameError(fd.name), age |-> ageError(fd.age), file |-> Undefined]

\* variant: the return value looks at the name error alone
validateFormNameOnly(fd) == newErrors(fd).name = Undefined

\* variant: a pending file error counts against validity
validateFormCountsFile(fd) ==
    /\ newErrors(fd).name = Undefined
    /\ newErrors(fd).age = Undefined
    /\ ~Truthy(errors.file)

\* validateForm's return value: Object.keys(newErrors).length === 0
validateForm(fd) ==
    newErrors(fd).name = Undefined /\ newErrors(fd).age = Undefined

---------------------------------------------------------------------------
(* The request and what axios.post settles with *)

SuccessText == "Form submitted successfully"
ServerErrorText == "Invalid age"
TimeoutText == "timeout of 15000ms exceeded"
NetworkErrorText == "Network Error"
HttpErrorText == "Request failed with status code"
TypeErrorText == "Cannot read properties of null (reading 'message')"

\* response.data of a fulfilled request
MessageBody == [isNull |-> FALSE, message |-> SuccessText]
NoMessageBody == [isNull |-> FALSE, message |-> Undefined]
NullBody == [isNull |-> TRUE, message |-> Undefined]
Bodies == {MessageBody, NoMessageBody, NullBody}

\* the fields the catch block reads off the value it caught
Err(c, r, st, de, m) ==
    [code |-> c, hasResponse |-> r, status |-> st, dataError |-> de, message |-> m]

NoErr == Err(Undefined, FALSE, 0, Undefined, Undefined)

\* the TypeError raised by response.data.message when response.data is null
NullBodyTypeError == Err(Undefined, FALSE, 0, Undefined, TypeErrorText)

\* values the awaited axios.post can reject with: a timeout, a network failure,
\* an HTTP error status with or without an error field in the body, and values
\* that carry an empty message or none
Rejections ==
    {Err("ECONNABORTED", FALSE, 0, Undefined, TimeoutText),
     Err("ERR_NETWORK", FALSE, 0, Undefined, NetworkErrorText)}
    \cup {Err("ERR_BAD_REQUEST", TRUE, st, de, HttpErrorText) :
             st \in {400, 413, 500}, de \in {Undefined, ServerErrorText}}
    \cup {Err(Undefined, FALSE, 0, Undefined, m) : m \in {"", Undefined}}
    \cup {Err(Undefined, TRUE, 400, ServerErrorText, Undefined)}

Outcome(f, d, e) == [fulfilled |-> f, data |-> d, err |-> e]
NoOutcome == Outcome(FALSE, NullBody, NoErr)
Outcomes == {Outcome(TRUE, d, NoErr) : d \in Bodies}
              \cup {Outcome(FALSE, NullBody, e) : e \in Rejections}

\* error.message.includes("Network Error"), for a message that is a string
includesNetworkError(m) == m \in {NetworkErrorText}

\* whether the catch block itself throws: error.message.includes(...) is
\* evaluated on an undefined message when neither earlier branch is taken
catchThrows(e) ==
    /\ e.code # "ECONNABORTED"
    /\ ~(e.hasResponse /\ e.status = 413)
    /\ e.message = Undefined

\* the errorMessage the catch block passes to setSubmitMessage
errorMessage(e) ==
    IF e.code = "ECONNABORTED" THEN TimedOut
    ELSE IF e.hasResponse /\ e.status = 413 THEN TooLarge
    ELSE IF includesNetworkError(e.message) THEN NetworkError
    ELSE Or3(IF e.hasResponse THEN e.dataError ELSE Undefined,
             e.message, SubmissionError)

\* the value the catch block receives: the rejection, or the TypeError the
\* try block raises on a fulfilled response whose data is null
caught(out) == IF out.fulfilled THEN NullBodyTypeError ELSE out.err

\* whether the try block completes (response.data.message can be read)
tryCompletes(out) == out.fulfilled /\ ~out.data.isNull

---------------------------------------------------------------------------
(* History *)

\* the last step taken: the handler, the file or outcome it was given, the
\* submission it belongs to and, for a submit event, errors.file as the
\* handler found it
Last(op, f, out, id) ==
    [op |-> op, file |-> f, out |-> out, id |-> id,
     fileErrorBefore |-> IF op \in {"submitInvalid", "submitValid"}
                           THEN errors.file ELSE Undefined]

---------------------------------------------------------------------------
(* Inputs of a session *)

SessionNames == {<<>>, <<"a">>, <<"a", "Z">>, <<"a", "1">>}
SessionAges == {<<>>, <<"5">>, <<"1", "5", "1">>}
SessionCandidates ==
    {File("application/pdf", maxSize), File("image/jpeg", maxSize - 1),
     File("text/plain", maxSize), File("image/png", maxSize + 1)}

---------------------------------------------------------------------------
(* Initial state: the component as first rendered *)

Init ==
    /\ formData = EmptyForm
    /\ errors = EmptyErrors
    /\ isSubmitting = FALSE
    /\ submitMessage = ""
    /\ messageType = ""
    /\ requests = {}
    /\ timers = {}
    /\ submitSeq = 0
    /\ msgOwner = 0
    /\ last = Last("init", NullFile, NoOutcome, 0)

---------------------------------------------------------------------------
(* Event handlers *)

\* the history's name for a change of the input called key
InputOp(key) == IF key = "name" THEN "inputName" ELSE "inputAge"

\* variant: the edited field is validated at once instead of being cleared
handleInputChangeRevalidates(key, value) ==
    /\ formData' = [formData EXCEPT ![key] = value]
    /\ errors' = [errors EXCEPT ![key] = IF key = "name" THEN nameError(value)
                                                          ELSE ageError(value)]
    /\ last' = Last(InputOp(key), NullFile, NoOutcome, 0)
    /\ UNCHANGED <<isSubmitting, submitMessage, messageType, requests, timers,
                   submitSeq, msgOwner>>

\* onChange of the name or age input
handleInputChange(key, value) ==
    /\ formData' = [formData EXCEPT ![key] = value]
    /\ errors' = IF Truthy(errors[key]) THEN [errors EXCEPT ![key] = ""] ELSE errors
    /\ last' = Last(InputOp(key), NullFile, NoOutcome, 0)
    /\ UNCHANGED <<isSubmitting, submitMessage, messageType, requests, timers,
                   submitSeq, msgOwner>>

\* variant: every image type passes the type check
typeRejectedUnlessImage(file) ==
    file.type \notin allowedTypes \cup {"image/gif"}

\* !allowedTypes.includes(file.type)
typeRejected(file) == file.type \notin allowedTypes

\* variant: the size converted to kilobytes, the limit left in bytes
sizeRejectedWrongUnit(file) == file.size \div 1024 > maxSize

\* file.size > maxSize
sizeRejected(file) == file.size > maxSize

\* variant: the file is stored before it is checked
handleFileSelectionStoresFirst(file) ==
    /\ formData' = [formData EXCEPT !.file = file]
    /\ errors' = [errors EXCEPT !.file =
                     IF typeRejected(file) THEN FileTypeError
                     ELSE IF sizeRejected(file) THEN FileSizeError ELSE ""]
    /\ last' = Last("file", file, NoOutcome, 0)
    /\ UNCHANGED <<isSubmitting, submitMessage, messageType, requests, timers,
                   submitSeq, msgOwner>>

\* a dropped or chosen file: type check, then size check, then accept
handleFileSelection(file) ==
    /\ IF typeRejected(file)
         THEN /\ errors' = [errors EXCEPT !.file = FileTypeError]
              /\ formData' = formData
         ELSE IF sizeRejected(file)
         THEN /\ errors' = [errors EXCEPT !.file = FileSizeError]
              /\ formData' = formData
         ELSE /\ formData' = [formData EXCEPT !.file = file]
              /\ errors' = [errors EXCEPT !.file = ""]
    /\ last' = Last("file", file, NoOutcome, 0)
    /\ UNCHANGED <<isSubmitting, submitMessage, messageType, requests, timers,
                   submitSeq, msgOwner>>

\* variant: the file part is left out of the payload
requestWithoutFile(id, fd, mt) ==
    [id |-> id, name |-> fd.name, age |-> fd.age, file |-> NullFile,
     messageType |-> mt]

\* the request handleSubmit issues: submitData built from the formData of the
\* render that handled the event, and the messageType that render captured
request(id, fd, mt) ==
    [id |-> id, name |-> fd.name, age |-> fd.age, file |-> fd.file,
     messageType |-> mt]

\* handleSubmit up to the await: validate, then either report or start the
\* request.  The request remembers the messageType of the render that handled
\* the event, which is what the finally block reads later.
handleSubmit ==
    /\ submitSeq' = submitSeq + 1
    /\ errors' = newErrors(formData)
    /\ IF ~validateForm(formData)
         THEN /\ messageType' = "error"
              /\ submitMessage' = FixErrors
              /\ msgOwner' = submitSeq'
              /\ last' = Last("submitInvalid", NullFile, NoOutcome, submitSeq')
              /\ UNCHANGED <<isSubmitting, requests>>
         ELSE /\ isSubmitting' = TRUE
              /\ submitMessage' = ""
              /\ requests' = requests \cup
                    {request(submitSeq', formData, messageType)}
              /\ last' = Last("submitValid", NullFile, NoOutcome, submitSeq')
              /\ UNCHANGED <<messageType, msgOwner>>
    /\ UNCHANGED <<formData, timers>>

\* variant: the submit button stays enabled while a request is in flight
SubmitEventAlwaysEnabled ==
    /\ submitSeq < MaxSubmits
    /\ handleSubmit

\* the submit event: the submit button is disabled while isSubmitting, so no
\* submit event reaches the handler then.  The handler is modelled for every
\* form state: the browser's constraint validation (required, min, max) would
\* stop some invalid forms earlier and is not modelled.
SubmitEvent ==
    /\ ~isSubmitting
    /\ submitSeq < MaxSubmits
    /\ handleSubmit

\* the finally block's timer: it reads the messageType captured at submit time
schedulesClear(r) == r.messageType = "success"

\* variant: the form reset moved to the finally block
formDataAfterAlways(out, fd) == EmptyForm

\* variant: setIsSubmitting(false) at the end of the try block only
isSubmittingAfterTryOnly(out) == ~tryCompletes(out)

\* the form after settlement: setFormData({...}) sits in the try block, after
\* response.data.message has been read
formDataAfter(out, fd) == IF tryCompletes(out) THEN EmptyForm ELSE fd

\* the finally block's setIsSubmitting(false) runs on every path
isSubmittingAfter(out) == FALSE

\* handleSubmit after the await: try or catch, then finally
settle(r, out) ==
    /\ requests' = requests \ {r}
    /\ formData' = formDataAfter(out, formData)
    /\ IF tryCompletes(out)
         THEN /\ messageType' = "success"
              /\ submitMessage' = out.data.message
              /\ msgOwner' = r.id
              /\ last' = Last("settleSuccess", NullFile, out, r.id)
         ELSE IF catchThrows(caught(out))
         THEN /\ messageType' = IF out.fulfilled THEN "success" ELSE messageType
              /\ last' = Last("settleUncaught", NullFile, out, r.id)
              /\ UNCHANGED <<submitMessage, msgOwner>>
         ELSE /\ messageType' = "error"
              /\ submitMessage' = errorMessage(caught(out))
              /\ msgOwner' = r.id
              /\ last' = Last("settleFailure", NullFile, out, r.id)
    /\ isSubmitting' = isSubmittingAfter(out)
    /\ timers' = IF schedulesClear(r) THEN timers \cup {r.id} ELSE timers
    /\ UNCHANGED <<errors, submitSeq>>

\* the setTimeout callback: setSubmitMessage("")
clearMessage(t) ==
    /\ timers' = timers \ {t}
    /\ submitMessage' = ""
    /\ last' = Last("timer", NullFile, NoOutcome, t)
    /\ UNCHANGED <<formData, errors, isSubmitting, messageType, requests,
                   submitSeq, msgOwner>>

---------------------------------------------------------------------------
(* The session *)

InputChange ==
    \/ \E v \in SessionNames : handleInputChange("name", v)
    \/ \E v \in SessionAges : handleInputChange("age", v)

FileSelect == \E f \in SessionCandidates : handleFileSelection(f)

Settle == \E r \in requests : \E out \in Outcomes : settle(r, out)

TimerFires == \E t \in timers : clearMessage(t)

Next == InputChange \/ FileSelect \/ SubmitEvent \/ Settle \/ TimerFires

Spec == Init /\ [][Next]_vars

---------------------------------------------------------------------------
(* Validation alone: the submit handler applied to every form the two text *)
(* inputs can hold                                                         *)

InitValidate ==
    /\ formData \in [name : NameInputs, age : AgeInputs, file : {NullFile}]
    /\ errors = EmptyErrors
    /\ isSubmitting = FALSE
    /\ submitMessage = ""
    /\ messageType = ""
    /\ requests = {}
    /\ timers = {}
    /\ submitSeq = 0
    /\ msgOwner = 0
    /\ last = Last("init", NullFile, NoOutcome, 0)

NextValidate == SubmitEvent

SpecValidate == InitValidate /\ [][NextValidate]_vars

---------------------------------------------------------------------------
(* File selection alone: every candidate file offered in every state of    *)
(* formData.file and errors.file that the selection handler can leave      *)

AcceptedFiles == {f \in Candidates : ~typeRejected(f) /\ ~sizeRejected(f)}

InitFile ==
    /\ formData \in [name : {<<>>}, age : {<<>>}, file : {NullFile} \cup AcceptedFiles]
    /\ errors \in [name : {Undefined}, age : {Undefined},
                   file : {Undefined, "", FileTypeError, FileSizeError}]
    /\ isSubmitting = FALSE
    /\ submitMessage = ""
    /\ messageType = ""
    /\ requests = {}
    /\ timers = {}
    /\ submitSeq = 0
    /\ msgOwner = 0
    /\ last = Last("init", NullFile, NoOutcome, 0)

NextFile == \E f \in Candidates : handleFileSelection(f)

SpecFile == InitFile /\ [][NextFile]_vars

---------------------------------------------------------------------------
(* Properties *)

\* lastResult is Failure(m) as the component renders it
IsFailure(m) == submitMessage = m /\ messageType = "error"

\* a step that handles a submit event
SubmitStep == submitSeq' # submitSeq

\* the rule table for name, with the length that the second rule measures
RuleTableName(n, len) ==
    IF \A i \in 1..Len(n) : n[i] \in SpaceChars THEN NameRequired
    ELSE IF len < 2 THEN NameTooShort
    ELSE IF \E i \in 1..Len(n) : n[i] \notin LetterChars \cup SpaceChars
         THEN NameLettersOnly
    ELSE Undefined

\* the rule table for age
RuleTableAge(a) ==
    IF Len(a) = 0 THEN AgeRequired
    ELSE IF ToNumber(a) \notin 0..150 THEN AgeOutOfRange
    ELSE Undefined

C2_InvalidSubmitReports ==
    [][(SubmitStep /\ (nameError(formData.name) # Undefined
                         \/ ageError(formData.age) # Undefined))
          => /\ requests' = {}
             /\ isSubmitting' = FALSE
             /\ messageType' = "error"
             /\ submitMessage' = FixErrors]_vars

\* C2 witness: an invalid submit has just been reported
C2_Witness ==
    /\ last.op = "submitInvalid"
    /\ Truthy(errors.name) \/ Truthy(errors.age)
    /\ IsFailure(FixErrors)
    /\ requests = {}

\* C3: isSubmitting is true exactly while a request is outstanding.
C3_SubmittingIffOutstanding == isSubmitting <=> requests # {}

\* C3 witness: a request that timed out has settled and isSubmitting is false again
C3_Witness ==
    /\ last.op = "settleFailure"
    /\ last.out.err.code = "ECONNABORTED"
    /\ ~isSubmitting
    /\ requests = {}

\* C4 (as claimed): whenever a submission settles with success, the clear of
\* submitMessage is scheduled at that settlement.
C4_SuccessSchedulesClear ==
    last.op = "settleSuccess" => last.id \in timers

\* C5 (as claimed): a timer scheduled by a submission that a later submit
\* event has followed leaves submitMessage as it is when it fires.
C5_StaleClearIgnored ==
    [][(last'.op = "timer" /\ last'.id < submitSeq)
          => submitMessage' = submitMessage]_vars

\* C6 (as claimed): right after a submission settles with success the form is
\* empty and no field holds an error message.
C6_SuccessResetsFormAndErrors ==
    last.op = "settleSuccess"
        => /\ formData = EmptyForm
           /\ ~Truthy(errors.name)
           /\ ~Truthy(errors.age)
           /\ ~Truthy(errors.file)

\* C7: a settlement that does not end in success (the catch block ran) leaves
\* formData and errors as they were; it changes isSubmitting, the message and
\* the pending timers only.
C7_FailureKeepsForm ==
    [][(last'.op \in {"settleFailure", "settleUncaught"})
          => (formData' = formData /\ errors' = errors)]_vars

\* C7 witness: a failure has settled and the entered name, age and file are still there
C7_Witness ==
    /\ last.op = "settleFailure"
    /\ formData.name = <<"a", "Z">>
    /\ formData.age = <<"5">>
    /\ formData.file.present

Validated == last.op \in {"submitInvalid", "submitValid"}

\* C8 (as claimed): the errors validateForm records follow the rule table in
\* which the second name rule measures the trimmed length.
C8_RuleTableTrimmed ==
    Validated
        => /\ errors.name = RuleTableName(formData.name, Len(trim(formData.name)))
           /\ errors.age = RuleTableAge(formData.age)

\* C8 (amended): the errors validateForm records follow the rule table in
\* which the second name rule measures the length of the name as typed,
\* whitespace included, and letters are a-z and A-Z.
C8_RuleTableUntrimmed ==
    Validated
        => /\ errors.name = RuleTableName(formData.name, Len(formData.name))
           /\ errors.age = RuleTableAge(formData.age)
           /\ errors.file = Undefined

\* C8 witness: a one-letter name padded with a space has been validated
\* and carries no error
C8_Witness ==
    /\ Validated
    /\ formData.name = <<" ", "a">>
    /\ errors.name = Undefined

\* a step that hands a file larger than 5 242 880 bytes to handleFileSelection
OversizeStep == last'.op = "file" /\ last'.file.size > 5242880

\* C9 (as claimed): every candidate larger than 5 242 880 bytes is rejected
\* with the size message, whatever its MIME type.
C9_OversizeGetsSizeMessage ==
    [][OversizeStep
          => (formData' = formData /\ errors'.file = FileSizeError)]_vars

\* C9 (amended): every candidate larger than 5 242 880 bytes is rejected and
\* formData.file stays as it was; errors.file is the size message when the
\* MIME type is allowed and the type message when it is not.
C9_OversizeRejected ==
    [][OversizeStep
          => /\ formData' = formData
             /\ errors'.file = IF last'.file.type \in allowedTypes
                                 THEN FileSizeError ELSE FileTypeError]_vars

\* C9 witness: an oversize file of a type that is not allowed was offered
\* while a file was selected; the type message is shown and the file stays
C9_Witness ==
    /\ last.op = "file"
    /\ last.file.size > maxSize
    /\ last.file.type \notin allowedTypes
    /\ errors.file = FileTypeError
    /\ formData.file.present

\* the message the priority list of the claim selects
ClaimedFailureMessage(e) ==
    IF e.code = "ECONNABORTED" THEN TimedOut
    ELSE IF e.hasResponse /\ e.status = 413 THEN TooLarge
    ELSE IF ~e.hasResponse /\ e.code = "ERR_NETWORK" THEN NetworkError
    ELSE IF e.hasResponse /\ Truthy(e.dataError) THEN e.dataError
    ELSE IF Truthy(e.message) THEN e.message
    ELSE SubmissionError

\* C10 (as claimed): after a rejected request has settled, the failure
\* message shown is the one the priority list selects.
C10_FailureMessageByPriority ==
    (last.op \in {"settleFailure", "settleUncaught"} /\ ~last.out.fulfilled)
        => IsFailure(ClaimedFailureMessage(last.out.err))


\* a settlement has just run
Settled == last.op \in {"settleSuccess", "settleFailure", "settleUncaught"}

\* C11 (as claimed): once a request has settled, isSubmitting is false and a
\* non-empty success or failure message is shown, whatever the request
\* settled with.
C11_SettlementShowsMessage ==
    Settled
        => /\ ~isSubmitting
           /\ Truthy(submitMessage)
           /\ messageType \in {"success", "error"}
           /\ msgOwner = last.id

\* C12: at most one request is outstanding, and no step taken while
\* isSubmitting is true starts a request.
C12_OneRequestAtATime ==
    [][/\ Cardinality(requests') <= 1
       /\ isSubmitting => requests' \subseteq requests]_vars

\* C12 witness: a later submission's request is in flight, events have been
\* handled meanwhile and the session could take further submit events
C12_Witness ==
    /\ isSubmitting
    /\ Cardinality(requests) = 1
    /\ last.op \in {"inputName", "inputAge", "file"}
    /\ submitSeq > 1
    /\ submitSeq < MaxSubmits

\* a step that hands handleFileSelection a file whose MIME type is not
\* application/pdf, image/jpeg or image/png
DisallowedTypeStep ==
    /\ last'.op = "file"
    /\ last'.file.type \notin {"application/pdf", "image/jpeg", "image/png"}

\* C13: a candidate whose MIME type is not application/pdf, image/jpeg or
\* image/png sets errors.file to the type message and leaves formData, and so
\* the selected file or its absence, as it was.
C13_DisallowedTypeRejected ==
    [][DisallowedTypeStep
          => (errors'.file = FileTypeError /\ formData' = formData)]_vars

\* C13 witness: a text/plain file within the size limit was offered while a
\* file was selected; the type message is shown and the file stays
C13_Witness ==
    /\ last.op = "file"
    /\ last.file.type = "text/plain"
    /\ last.file.size <= maxSize
    /\ errors.file = FileTypeError
    /\ formData.file.present
    /\ formData.file # last.file

\* C14 (as claimed): a settlement that ends in a failure message schedules no
\* clear of submitMessage.
C14_FailureSchedulesNoClear ==
    last.op = "settleFailure" => last.id \notin timers

\* C15: every outstanding request carries no file, or a file whose MIME type
\* is application/pdf, image/jpeg or image/png and whose size is at most
\* 5 242 880 bytes.
C15_RequestFileIsValid ==
    \A r \in requests :
        \/ ~r.file.present
        \/ /\ r.file.type \in {"application/pdf", "image/jpeg", "image/png"}
           /\ r.file.size <= 5242880

\* C15 witness: a request carrying a file was started by a submit event that
\* found the message of a rejected selection in errors.file
C15_Witness ==
    /\ last.op = "submitValid"
    /\ Truthy(last.fileErrorBefore)
    /\ \E r \in requests : r.file.present

\* C16: a change of the name or age input leaves no message in that field's
\* errors entry, valid or not the new value, and leaves the other errors
\* entries, the other input's value and the file as they were.
C16_InputChangeClearsOwnError ==
    [][\A key \in {"name", "age"} :
          last'.op = InputOp(key)
             => /\ ~Truthy(errors'[key])
                /\ \A k \in {"name", "age", "file"} \ {key} : errors'[k] = errors[k]
                /\ \A k \in {"name", "age", "file"} \ {key} : formData'[k] = formData[k]]_vars

\* C16 witness: the name was changed to a value that breaks a rule; its
\* entry is cleared while the age and file messages stay
C16_Witness ==
    /\ last.op = "inputName"
    /\ nameError(formData.name) # Undefined
    /\ errors.name = ""
    /\ errors.age = AgeRequired
    /\ errors.file = FileTypeError

\* C17: a submit event on a form that passes validation starts exactly one
\* request, carrying the name, age and file formData held when the event was
\* handled; no other step adds a request or alters one.
C17_PayloadIsFormAtSubmit ==
    [][IF SubmitStep /\ RuleTableName(formData.name, Len(formData.name)) = Undefined
                     /\ RuleTableAge(formData.age) = Undefined
         THEN /\ Cardinality(requests' \ requests) = 1
              /\ \A r \in requests' \ requests :
                    /\ r.name = formData.name
                    /\ r.age = formData.age
                    /\ r.file = formData.file
              /\ requests \subseteq requests'
         ELSE requests' \subseteq requests]_vars

\* C17 witness: the request in flight carries the name and the file of the
\* submit event although both were replaced in the form meanwhile
C17_Witness ==
    \E r \in requests :
        /\ r.file.present
        /\ formData.name # r.name
        /\ formData.age # r.age
        /\ formData.file.present
        /\ formData.file # r.file

=============================================================================
